---- MODULE Spec2Model ----
(***************************************************************************)
(* Model of the ACR -> GAR image migration tooling:                        *)
(*   azure-to-gcp-migration.py   ledger (SQLite), retry decorator,         *)
(*                               full-scan driver, targeted replay         *)
(*   gcp-to-azure-image-verify.py  inventory scans and compare_registries   *)
(*                                                                         *)
(* A Python str is modelled as a sequence of tokens (one token per run of  *)
(* characters that no code path splits further); the separators ":" "/"    *)
(* "-" and the newline are tokens of their own, so that f-string           *)
(* formatting is concatenation and str.split / str.strip are computed.     *)
(***************************************************************************)
EXTENDS Naturals, Integers, Sequences, FiniteSets, TLC

----------------------------------------------------------------------------
(* Bounds of the model *)

MaxRetries == 3
MaxLedger == 2
MaxFileLines == 2

----------------------------------------------------------------------------
(* Strings *)

S(t) == <<t>>
COLON == <<":">>
SLASH == <<"/">>
NL == <<"\n">>
Whitespace == {"\n", " "}

RECURSIVE Split(_, _)
Split(s, sep) ==
  IF \A i \in 1..Len(s) : s[i] # sep
  THEN <<s>>
  ELSE LET k == CHOOSE i \in 1..Len(s) :
                  s[i] = sep /\ \A j \in 1..(i - 1) : s[j] # sep
       IN <<SubSeq(s, 1, k - 1)>> \o Split(SubSeq(s, k + 1, Len(s)), sep)

RECURSIVE Strip(_)
Strip(s) ==
  IF s = <<>> THEN s
  ELSE IF s[1] \in Whitespace THEN Strip(Tail(s))
  ELSE IF s[Len(s)] \in Whitespace THEN Strip(SubSeq(s, 1, Len(s) - 1))
  ELSE s

Range(f) == {f[i] : i \in DOMAIN f}

RECURSIVE SeqsUpTo(_, _)
SeqsUpTo(A, n) ==
  IF n = 0 THEN {<<>>}
  ELSE LET shorter == SeqsUpTo(A, n - 1)
       IN shorter \cup {Append(q, a) : q \in {p \in shorter : Len(p) = n - 1}, a \in A}

NoDup(q) == \A i, j \in 1..Len(q) : i # j => q[i] # q[j]

Orderings(A) ==
  {q \in [1..Cardinality(A) -> A] : \A i, j \in 1..Cardinality(A) : i # j => q[i] # q[j]}

(* Python values that may be None *)
PyNone == [none |-> TRUE, val |-> <<>>]
Some(v) == [none |-> FALSE, val |-> v]

----------------------------------------------------------------------------
(* Ledger: table processed_entries of processed.db *)

Row(acr_name, repo, tag, digest) == <<acr_name, repo, tag, digest>>

Count(rows, x) == Cardinality({i \in 1..Len(rows) : rows[i] = x})

check_ignoring_digest(rows, x) ==
  \E i \in 1..Len(rows) : rows[i][1] = x[1] /\ rows[i][2] = x[2] /\ rows[i][3] = x[3]

check_if_processed(rows, x) == \E i \in 1..Len(rows) : rows[i] = x

insert_plain(rows, x) == Append(rows, x)

insert_processed(rows, x) ==
  IF \E i \in 1..Len(rows) : rows[i] = x THEN rows ELSE Append(rows, x)

get_all_processed(rows) == rows

clear_all_processed(rows) == <<>>

----------------------------------------------------------------------------
(* Retry decorator: one iteration of `for i in range(retries)` *)

Raise == [raise |-> TRUE, ret |-> PyNone]
Return(v) == [raise |-> FALSE, ret |-> v]

RetryGiveUp(i, retries, out) ==
  IF out.raise
  THEN [done |-> TRUE, i |-> i + 1, result |-> PyNone]
  ELSE [done |-> TRUE, i |-> i, result |-> out.ret]

RetryStep(i, retries, out) ==
  IF out.raise
  THEN IF i + 1 < retries
       THEN [done |-> FALSE, i |-> i + 1, result |-> PyNone]
       ELSE [done |-> TRUE, i |-> i + 1, result |-> PyNone]
  ELSE [done |-> TRUE, i |-> i, result |-> out.ret]

----------------------------------------------------------------------------
(* State *)

VARIABLES
  mode,        \* "scan" (no --diff-file), "replay" (--diff-file given), "none"
  mpc,         \* position of the main thread of azure-to-gcp-migration.py
  exit_code,   \* <<>> while running, then <<0>> or <<1>>
  table,       \* processed.db holds the table processed_entries
  ledger,      \* rows of processed_entries, in insertion order
  ledger0,     \* rows present when the run started
  diff_file,   \* [exists, lines]: the file named by --diff-file
  acr_names,   \* result of list_acr_registries()
  ci,          \* index of the chunk being processed
  matt,        \* loop index of the retry wrapper around list_acr_registries
  wk,          \* per pool slot: the process_acr call it runs
  li,          \* replay: index of the line the for loop is at
  loopvar,     \* replay: bindings of original_image and parts after the loop body
  futures,     \* replay: the futures submitted to the executor
  report,      \* rows printed by the Reporting step (<<>> until then)
  ghost,       \* history of copies, checks and inserts of the run
  r_n, r_outs, r_i, r_calls, r_res,   \* one call through the retry wrapper
  lop, lins,                          \* last ledger operation, ids inserted since clear
  vpc, acr_cloud, gar_cloud, acr_file, gcr_file, diff_out, vret  \* verify script

ledgerVars == <<table, ledger, ledger0>>
migVars == <<mode, mpc, exit_code, diff_file, acr_names, ci, matt, wk, li, loopvar,
             futures, report, ghost>>
retryVars == <<r_n, r_outs, r_i, r_calls, r_res>>
lopVars == <<lop, lins>>
verVars == <<vpc, acr_cloud, gar_cloud, acr_file, gcr_file, diff_out, vret>>
vars == <<ledgerVars, migVars, retryVars, lopVars, verVars>>

Absent == [exists |-> FALSE, lines |-> <<>>]
File(lines) == [exists |-> TRUE, lines |-> lines]

NotPrinted == [printed |-> FALSE, rows |-> <<>>]
NoGhost == [submits |-> {}, gcrane |-> {}, checks |-> {}, inserts |-> {},
            started |-> {}, finished |-> {}, aborted |-> "no",
            entered |-> {}, attempted |-> {}, faults |-> {}]

(* Values of the variables a specification does not use *)
LedgerInert == table = FALSE /\ ledger = <<>> /\ ledger0 = <<>>
MigInert ==
  /\ mode = "none" /\ mpc = "none" /\ exit_code = <<>>
  /\ diff_file = Absent /\ acr_names = PyNone /\ ci = 0 /\ matt = 0
  /\ wk = <<>> /\ li = 0 /\ loopvar = <<>> /\ futures = <<>>
  /\ report = NotPrinted /\ ghost = NoGhost
RetryInert == r_n = 0 /\ r_outs = <<>> /\ r_i = 0 /\ r_calls = 0 /\ r_res = <<"none">>
LopInert == lop = [kind |-> "none"] /\ lins = {}
VerInert ==
  /\ vpc = "none" /\ acr_cloud = {} /\ gar_cloud = {}
  /\ acr_file = Absent /\ gcr_file = Absent /\ diff_out = Absent /\ vret = <<>>

----------------------------------------------------------------------------
(* RetrySpec: one function decorated with @retry(retries = r_n), whose     *)
(* k-th invocation behaves as r_outs[k]                                    *)

RetValues == {PyNone, Some(S("x")), Some(S("y"))}
CallOutcomes == {Raise} \cup {Return(v) : v \in RetValues}

RetryInit ==
  /\ r_n \in 0..MaxRetries
  /\ r_outs \in [1..r_n -> CallOutcomes]
  /\ r_i = 0 /\ r_calls = 0 /\ r_res = <<"pending">>
  /\ LedgerInert /\ MigInert /\ LopInert /\ VerInert

(* an iteration of the loop: func is invoked once *)
RetryCall ==
  /\ r_res = <<"pending">> /\ r_i < r_n
  /\ LET s == RetryStep(r_i, r_n, r_outs[r_calls + 1])
     IN /\ r_i' = s.i
        /\ r_calls' = r_calls + 1
        /\ r_res' = IF s.done THEN <<"returned", s.result>> ELSE <<"pending">>
  /\ UNCHANGED <<r_n, r_outs, ledgerVars, migVars, lopVars, verVars>>

(* range(retries) is empty: the wrapper falls through to its implicit None *)
RetryEmpty ==
  /\ r_res = <<"pending">> /\ r_n = 0
  /\ r_res' = <<"returned", PyNone>>
  /\ UNCHANGED <<r_n, r_outs, r_i, r_calls, ledgerVars, migVars, lopVars, verVars>>

RetryNext == RetryCall \/ RetryEmpty
RetrySpec == RetryInit /\ [][RetryNext]_vars

----------------------------------------------------------------------------
(* LedgerSpec: the four ledger operations applied in any order to any      *)
(* duplicate-free table                                                    *)

LedgerIds ==
  { Row(S("r1"), S("a"), S("v1"), <<"sha256", ":", "d1">>),
    Row(S("r1"), S("a"), S("v1"), <<"sha256", ":", "d2">>),
    Row(S("r1"), S("a"), S("v2"), <<"sha256", ":", "d1">>) }

LedgerInit ==
  /\ table = TRUE
  /\ ledger \in {q \in SeqsUpTo(LedgerIds, MaxLedger) : NoDup(q)}
  /\ ledger0 = ledger
  /\ lop = [kind |-> "none"] /\ lins = {}
  /\ MigInert /\ RetryInert /\ VerInert

LInsert(x) ==
  /\ ledger' = insert_processed(ledger, x)
  /\ lop' = [kind |-> "insert", id |-> x, before |-> ledger,
             again |-> (lop.kind = "insert" /\ lop.id = x)]
  /\ lins' = lins \cup {x}
  /\ UNCHANGED <<table, ledger0, migVars, retryVars, verVars>>

LCheck(x) ==
  /\ lop' = [kind |-> "check", id |-> x, before |-> ledger,
             ret |-> check_if_processed(ledger, x)]
  /\ UNCHANGED <<ledgerVars, lins, migVars, retryVars, verVars>>

LList ==
  /\ lop' = [kind |-> "list", before |-> ledger, ret |-> get_all_processed(ledger)]
  /\ UNCHANGED <<ledgerVars, lins, migVars, retryVars, verVars>>

LClear ==
  /\ ledger' = clear_all_processed(ledger)
  /\ lop' = [kind |-> "clear", before |-> ledger]
  /\ lins' = {}
  /\ UNCHANGED <<table, ledger0, migVars, retryVars, verVars>>

LedgerNext ==
  \/ \E x \in LedgerIds : LInsert(x)
  \/ \E x \in LedgerIds : LCheck(x)
  \/ LList
  \/ LClear
LedgerSpec == LedgerInit /\ [][LedgerNext]_vars

----------------------------------------------------------------------------
(* azure-to-gcp-migration.py: configuration and the Azure inventory *)

MAX_CONCURRENT_JOBS == 2
RETRY_LIMIT == 2
NumRegistries == 3

GCR_REGION == S("us")
GCR_PROJECT_ID == S("p")

Sha(d) == <<"sha256", ":", d>>

(* what the subscription holds, in the order the listings return it *)
AcrOrder == <<S("r1"), S("r2"), S("r3"), S("r4"), S("r5")>>
Registries == SubSeq(AcrOrder, 1, NumRegistries)
Repos(acr) == IF acr = S("r1") THEN <<S("a"), S("b")>> ELSE <<S("a")>>
Tags(acr, repo) ==
  IF acr = S("r1") /\ repo = S("a") THEN <<S("v1"), S("v2")>> ELSE <<S("v1")>>
(* the digests a tag may resolve to when it is looked up (v1 of r1/a has   *)
(* been retargeted from d1 to d2 at some point)                            *)
Digests(acr, repo, tag) ==
  IF tag = S("v2") THEN {Sha("d2")}
  ELSE IF acr = S("r1") /\ repo = S("a") THEN {Sha("d1"), Sha("d2")}
  ELSE {Sha("d1")}

(* lines 280 and 351-354 *)
SourceImage(acr, repo, tag) ==
  acr \o <<".azurecr.io">> \o <<"/">> \o repo \o COLON \o tag
DestImage(acr, repo, tag) ==
  GCR_REGION \o <<"-docker.pkg.dev">> \o <<"/">> \o GCR_PROJECT_ID \o <<"/">> \o acr
     \o <<"/">> \o repo \o COLON \o tag

IsNone(v) == v.none
Falsy(v) == v.none \/ v.val = <<>>

(* lines 307-308: [lst[i:i + n] for i in range(0, len(lst), n)] *)
chunkify(lst, n) ==
  LET starts == {i \in 0..(Len(lst) - 1) : i % n = 0}
  IN [k \in 1..Cardinality(starts) |->
        LET i == (k - 1) * n
            stop == IF i + n < Len(lst) THEN i + n ELSE Len(lst)
        IN SubSeq(lst, i + 1, stop)]

----------------------------------------------------------------------------
(* process_acr / process_repository, run by the pool slot w *)

IdleWorker ==
  [pc |-> "idle", acr |-> <<>>, repos |-> <<>>, ri |-> 0, tags |-> PyNone, ti |-> 0,
   digest |-> <<>>, att |-> 0]
StartAcr(acr) == [IdleWorker EXCEPT !.pc = "rg", !.acr = acr]
(* process_acr returned, or raised into its future *)
Ended(r, how) == [IdleWorker EXCEPT !.pc = how, !.acr = r.acr]
Running(r) == r.pc \notin {"idle", "done", "raised"}

(* line 301: the next iteration of `for repo in repositories`, or the end *)
GotoRepo(r, k) ==
  IF k <= Len(r.repos)
  THEN [r EXCEPT !.pc = "list_tags", !.ri = k, !.tags = PyNone, !.ti = 0,
                 !.digest = <<>>, !.att = 0]
  ELSE Ended(r, "done")

(* line 265: the next iteration of `for tag in tags`, or the end of        *)
(* process_repository                                                      *)
GotoTag(r, k) ==
  IF k <= Len(r.tags.val)
  THEN [r EXCEPT !.pc = "digest", !.ti = k, !.digest = <<>>, !.att = 0]
  ELSE GotoRepo(r, r.ri + 1)

CurRepo(r) == r.repos[r.ri]
CurTag(r) == r.tags.val[r.ti]
CurId(r) == Row(r.acr, CurRepo(r), CurTag(r), r.digest)

(* one invocation of a function decorated with @retry() by the worker r   *)
Invoke(r, out) == RetryStep(r.att, RETRY_LIMIT, out)
(* the wrapper sleeps and loops *)
Again(r, s) == [r EXCEPT !.att = s.i]
(* the wrapper has returned *)
Back(r) == [r EXCEPT !.att = 0]

(* history: process_repository was entered, a tag's digest was looked up,  *)
(* the step `op` of the item the worker r is at has failed                *)
Entered(g, r) == [g EXCEPT !.entered = @ \cup {<<r.acr, CurRepo(r)>>}]
Attempted(g, r) == [g EXCEPT !.attempted = @ \cup {<<r.acr, CurRepo(r), CurTag(r)>>}]
Fault(g, r, op) ==
  [g EXCEPT !.faults = @ \cup
     {[acr |-> r.acr, ri |-> r.ri, ti |-> r.ti, op |-> op]}]

Fin(g, r) ==
  IF r.pc \in {"done", "raised"} THEN [g EXCEPT !.finished = @ \cup {r.acr}] ELSE g

WorkerStep(w, r, g) ==
  /\ wk' = [wk EXCEPT ![w] = r]
  /\ ghost' = Fin(g, r)
  /\ UNCHANGED <<mode, mpc, exit_code, diff_file, acr_names, ci, matt, li, loopvar,
                 futures, report, retryVars, lopVars, verVars>>

(* lines 180-189, 293-296: a failing az makes the function return None *)
AfterRg(r, v) == IF Falsy(v) THEN Ended(r, "done") ELSE [r EXCEPT !.pc = "list_repos"]
get_resource_group_name(w) ==
  /\ wk[w].pc = "rg"
  /\ \E out \in {Return(Some(S("rg"))), Return(PyNone)} :
       LET s == Invoke(wk[w], out)
       IN WorkerStep(w, IF s.done THEN AfterRg(Back(wk[w]), s.result) ELSE Again(wk[w], s),
                     IF s.done /\ Falsy(s.result) THEN Fault(ghost, wk[w], "rg") ELSE ghost)
  /\ UNCHANGED ledgerVars

(* lines 192-194, 299-301: iterating over None raises TypeError, which     *)
(* leaves process_acr                                                      *)
AfterRepos(r, v) ==
  IF v.none THEN Ended(r, "raised") ELSE GotoRepo([r EXCEPT !.repos = v.val], 1)
list_repositories(w) ==
  /\ wk[w].pc = "list_repos"
  /\ \E out \in {Return(Some(Repos(wk[w].acr))), Raise} :
       LET s == Invoke(wk[w], out)
       IN WorkerStep(w, IF s.done THEN AfterRepos(Back(wk[w]), s.result) ELSE Again(wk[w], s),
                     IF s.done /\ s.result.none THEN Fault(ghost, wk[w], "list_repos")
                     ELSE ghost)
  /\ UNCHANGED ledgerVars

(* lines 197-199, 260 *)
AfterTags(r, v) == [r EXCEPT !.pc = "create", !.tags = v]
list_tags(w) ==
  /\ wk[w].pc = "list_tags"
  /\ \E out \in {Return(Some(Tags(wk[w].acr, CurRepo(wk[w])))), Raise} :
       LET s == Invoke(wk[w], out)
           g == Entered(ghost, wk[w])
       IN WorkerStep(w, IF s.done THEN AfterTags(Back(wk[w]), s.result) ELSE Again(wk[w], s),
                     IF s.done /\ s.result.none THEN Fault(g, wk[w], "list_tags") ELSE g)
  /\ UNCHANGED ledgerVars

(* lines 215-231, 261-265: whatever gcloud answers, the function returns   *)
(* None; `for tag in None` raises TypeError, caught at line 288            *)
AfterCreate(r, v) == IF r.tags.none THEN GotoRepo(r, r.ri + 1) ELSE GotoTag(r, 1)
create_gcr_repository(w) ==
  /\ wk[w].pc = "create"
  /\ \E out \in {Return(PyNone)} :
       LET s == Invoke(wk[w], out)
       IN WorkerStep(w, IF s.done THEN AfterCreate(Back(wk[w]), s.result) ELSE Again(wk[w], s),
                     ghost)
  /\ UNCHANGED ledgerVars

(* lines 202-212, 266-269: the tag resolves, or az prints nothing, or az  *)
(* fails and the function returns None                                    *)
AfterDigest(r, v) ==
  IF Falsy(v) THEN GotoTag(r, r.ti + 1) ELSE [r EXCEPT !.pc = "check", !.digest = v.val]
get_tag_digest(w) ==
  /\ wk[w].pc = "digest"
  /\ \E out \in {Return(Some(d)) : d \in Digests(wk[w].acr, CurRepo(wk[w]), CurTag(wk[w]))}
                  \cup {Return(Some(<<>>)), Return(PyNone)} :
       LET s == Invoke(wk[w], out)
           g == Attempted(ghost, wk[w])
       IN WorkerStep(w, IF s.done THEN AfterDigest(Back(wk[w]), s.result) ELSE Again(wk[w], s),
                     IF s.done /\ s.result \in {PyNone, Some(<<>>)}
                     THEN Fault(g, wk[w], "digest") ELSE g)
  /\ UNCHANGED ledgerVars

(* lines 273-275; without the table the SELECT raises, caught at line 288 *)
process_repository_check(w) ==
  /\ wk[w].pc = "check"
  /\ LET r == wk[w]
         found == check_if_processed(ledger, CurId(r))
         g == [ghost EXCEPT !.checks = @ \cup
                 {[w |-> w, ci |-> ci, id |-> CurId(r), ret |-> found,
                   present |-> Count(ledger, CurId(r)) >= 1]}]
     IN IF ~table THEN WorkerStep(w, GotoRepo(r, r.ri + 1), ghost)
        ELSE IF found THEN WorkerStep(w, GotoTag(r, r.ti + 1), g)
        ELSE WorkerStep(w, [r EXCEPT !.pc = "submit"], g)
  /\ UNCHANGED ledgerVars

(* lines 278-281: the copy is handed to a pool of its own *)
process_repository_submit(w) ==
  /\ wk[w].pc = "submit"
  /\ LET r == wk[w]
     IN WorkerStep(w, [r EXCEPT !.pc = "copy"],
                   [ghost EXCEPT !.submits = @ \cup
                      {[w |-> w, ci |-> ci, line |-> 0, id |-> CurId(r), named |-> CurId(r),
                        src |-> SourceImage(r.acr, CurRepo(r), CurTag(r)),
                        ledgered |-> Count(ledger, CurId(r)) >= 1]}])
  /\ UNCHANGED ledgerVars

(* lines 234-241: one run of gcrane; rc is its return code, zero or not.   *)
(* subprocess.run does not raise on a non-zero return code and copy_image  *)
(* returns None in both cases.                                             *)
GcraneOutcomes == {"ok", "err"}
GcraneCall(rc) == Return(PyNone)

(* lines 282-283: future.result() hands back the wrapper's None *)
AfterCopy(r, v) == [r EXCEPT !.pc = "insert"]
copy_image(w) ==
  /\ wk[w].pc = "copy"
  /\ \E rc \in GcraneOutcomes :
       LET r == wk[w]
           s == Invoke(r, GcraneCall(rc))
       IN WorkerStep(w, IF s.done THEN AfterCopy(Back(r), s.result) ELSE Again(r, s),
                     [ghost EXCEPT !.gcrane = @ \cup
                        {[w |-> w, ci |-> ci, line |-> 0, id |-> CurId(r),
                          named |-> CurId(r), k |-> r.att + 1, rc |-> rc]}])
  /\ UNCHANGED ledgerVars

(* line 287 *)
process_repository_insert(w) ==
  /\ wk[w].pc = "insert"
  /\ LET r == wk[w]
     IN IF ~table
        THEN /\ WorkerStep(w, GotoRepo(r, r.ri + 1), ghost)
             /\ UNCHANGED ledgerVars
        ELSE /\ ledger' = insert_processed(ledger, CurId(r))
             /\ WorkerStep(w, GotoTag(r, r.ti + 1),
                           [ghost EXCEPT !.inserts = @ \cup
                              {[w |-> w, ci |-> ci, line |-> 0, id |-> CurId(r)]}])
             /\ UNCHANGED <<table, ledger0>>

Worker(w) ==
  \/ get_resource_group_name(w)
  \/ list_repositories(w)
  \/ list_tags(w)
  \/ create_gcr_repository(w)
  \/ get_tag_digest(w)
  \/ process_repository_check(w)
  \/ process_repository_submit(w)
  \/ copy_image(w)
  \/ process_repository_insert(w)

----------------------------------------------------------------------------
(* gcp-to-azure-image-verify.py *)

NoTag == S("<no-tag>")

Last(q) == q[Len(q)]

RECURSIVE Flatten(_)
Flatten(qq) == IF qq = <<>> THEN <<>> ELSE Head(qq) \o Flatten(Tail(qq))

(* What the two registries may hold.  The sequences give the order in which *)
(* the listing commands return the entries.                                 *)
AcrImage(reg, repo, tag, d) ==
  [registry |-> S(reg), repo |-> S(repo), tag |-> S(tag), digest |-> Sha(d)]
GarPackage(repository_id, image) ==
  <<"us-docker.pkg.dev", "/", "p", "/">> \o repository_id \o SLASH \o image
GarImage(reg, image, tags, d) ==
  [repository_id |-> S(reg), package |-> GarPackage(S(reg), S(image)),
   version |-> Sha(d), tags |-> tags]
GarRegistryName(repository_id) ==
  <<"projects", "/", "p", "/", "locations", "/", "us", "/", "repositories", "/">>
     \o repository_id

AcrUniverse ==
  << AcrImage("r1", "a", "v1", "d1"),
     AcrImage("r1", "a", "v2", "d2"),
     AcrImage("r2", "a", "v1", "d1") >>
GarUniverse ==
  << GarImage("r1", "a", <<S("v1")>>, "d1"),
     GarImage("r1", "a", <<S("v2")>>, "d2"),
     GarImage("r2", "a", <<S("v1")>>, "d1"),
     GarImage("r1", "b", <<>>, "d3") >>

(* line 211 *)
AcrLine(img) ==
  img.registry \o COLON \o img.repo \o COLON \o img.tag \o COLON \o <<"-">> \o img.digest

(* lines 182-221: the lines of one registry; [] when a command fails *)
list_acr_images_with_digests(registry_name, cloud, fails) ==
  IF fails THEN <<>>
  ELSE LET InRegistry(img) == img \in cloud /\ img.registry = registry_name
           imgs == SelectSeq(AcrUniverse, InRegistry)
       IN [i \in 1..Len(imgs) |-> AcrLine(imgs[i])]

(* lines 95-112: the lines of one listed image *)
GarLines(repository_id, image) ==
  LET image_name == Last(Split(image.package, "/"))
      tags == image.tags
  IN IF tags # <<>>
     THEN [i \in 1..Len(tags) |->
             repository_id \o SLASH \o image_name \o COLON \o tags[i]
                \o COLON \o <<"-">> \o image.version]
     ELSE << repository_id \o COLON \o image_name \o COLON \o NoTag
                \o COLON \o <<"-">> \o image.version >>

(* lines 71-121 *)
list_docker_images_for_repository(repository_id, cloud, fails) ==
  IF fails THEN <<>>
  ELSE LET InRepository(img) == img \in cloud /\ img.repository_id = repository_id
           imgs == SelectSeq(GarUniverse, InRepository)
       IN Flatten([i \in 1..Len(imgs) |-> GarLines(repository_id, imgs[i])])

(* lines 126-134 *)
write_images_to_file(image_list) ==
  File([i \in 1..Len(image_list) |-> image_list[i] \o NL])

(* lines 267-270 *)
read_images_from_file(f) == {Strip(f.lines[i]) : i \in 1..Len(f.lines)}

missing_symmetric(acr_images, gcr_images) ==
  (acr_images \ gcr_images) \cup (gcr_images \ acr_images)

(* line 278 *)
missing_in_acr(acr_images, gcr_images) == acr_images \ gcr_images

AcrRegistries == <<S("r1"), S("r2")>>
GarRepositories == <<S("r1"), S("r2")>>

NoVret == [seen_acr |-> {}, seen_gar |-> {}, had_diff |-> FALSE, created |-> <<>>]

StaleLine == S("stale") \o NL

(* lines 21-30 *)
remove_old_files ==
  /\ vpc = "start"
  /\ acr_file' = Absent /\ gcr_file' = Absent /\ diff_out' = Absent
  /\ vpc' = "get_acr"
  /\ UNCHANGED <<acr_cloud, gar_cloud, vret, ledgerVars, migVars, retryVars, lopVars>>

(* lines 226-247; `failed` are the registries whose scan hit an error *)
get_acr ==
  /\ vpc = "get_acr"
  /\ \E names_ok \in BOOLEAN, failed \in SUBSET Range(AcrRegistries) :
       LET acr_names_v == IF names_ok THEN AcrRegistries ELSE <<>>
           results == [i \in 1..Len(acr_names_v) |->
                         list_acr_images_with_digests(acr_names_v[i], acr_cloud,
                                                      acr_names_v[i] \in failed)]
       IN /\ (~names_ok => failed = {})
          /\ acr_file' = write_images_to_file(Flatten(results))
          /\ vret' = [vret EXCEPT !.seen_acr =
                        {img \in acr_cloud : names_ok /\ img.registry \notin failed}]
  /\ vpc' = "get_gar"
  /\ UNCHANGED <<acr_cloud, gar_cloud, gcr_file, diff_out,
                 ledgerVars, migVars, retryVars, lopVars>>

(* lines 139-159 *)
get_gar ==
  /\ vpc = "get_gar"
  /\ \E list_ok \in BOOLEAN, failed \in SUBSET Range(GarRepositories) :
       LET registries == IF list_ok
                         THEN [i \in 1..Len(GarRepositories) |->
                                 GarRegistryName(GarRepositories[i])]
                         ELSE <<>>
           results == [i \in 1..Len(registries) |->
                         LET repository_id == Last(Split(registries[i], "/"))
                         IN list_docker_images_for_repository(
                              repository_id, gar_cloud, repository_id \in failed)]
       IN /\ (~list_ok => failed = {})
          /\ gcr_file' = write_images_to_file(Flatten(results))
          /\ vret' = [vret EXCEPT !.seen_gar =
                        {img \in gar_cloud : list_ok /\ img.repository_id \notin failed}]
  /\ vpc' = "compare"
  /\ UNCHANGED <<acr_cloud, gar_cloud, acr_file, diff_out,
                 ledgerVars, migVars, retryVars, lopVars>>

(* lines 275-290; both inventory files exist when it is called.  The set is *)
(* written in iteration order, which is any order.                          *)
compare_registries ==
  /\ vpc = "compare"
  /\ acr_file.exists /\ gcr_file.exists
  /\ LET acr_images == read_images_from_file(acr_file)
         gcr_images == read_images_from_file(gcr_file)
         missing == missing_in_acr(acr_images, gcr_images)
     IN IF missing # {}
        THEN /\ \E order \in Orderings(missing) :
                  diff_out' = File([i \in 1..Len(order) |-> order[i] \o NL])
             /\ vret' = [vret EXCEPT !.created = <<TRUE>>, !.had_diff = diff_out.exists]
        ELSE /\ diff_out' = Absent
             /\ vret' = [vret EXCEPT !.created = <<FALSE>>, !.had_diff = diff_out.exists]
  /\ vpc' = "compared"
  /\ UNCHANGED <<acr_cloud, gar_cloud, acr_file, gcr_file,
                 ledgerVars, migVars, retryVars, lopVars>>

(* lines 300-305 *)
verify_main_end ==
  /\ vpc = "compared"
  /\ vpc' = "done"
  /\ UNCHANGED <<acr_cloud, gar_cloud, acr_file, gcr_file, diff_out, vret,
                 ledgerVars, migVars, retryVars, lopVars>>

VerifyInit ==
  /\ vpc = "start"
  /\ acr_cloud \in SUBSET Range(AcrUniverse)
  /\ gar_cloud \in SUBSET Range(GarUniverse)
  /\ \E old \in {Absent, File(<<StaleLine>>)} :
       acr_file = old /\ gcr_file = old /\ diff_out = old
  /\ vret = NoVret
  /\ LedgerInert /\ MigInert /\ RetryInert /\ LopInert

VerifyNext ==
  \/ remove_old_files
  \/ get_acr
  \/ get_gar
  \/ compare_registries
  \/ verify_main_end
VerifySpec == VerifyInit /\ [][VerifyNext]_vars

(* CompareSpec: compare_registries called on any two inventory files, with *)
(* or without a difference file left by an earlier run                     *)
CompareLines ==
  { AcrLine(AcrUniverse[1]) \o NL,
    AcrLine(AcrUniverse[2]) \o NL,
    GarLines(S("r1"), GarUniverse[1])[1] \o NL }

CompareInit ==
  /\ vpc = "compare"
  /\ acr_cloud = {} /\ gar_cloud = {}
  /\ acr_file \in {File(q) : q \in SeqsUpTo(CompareLines, MaxFileLines)}
  /\ gcr_file \in {File(q) : q \in SeqsUpTo(CompareLines, MaxFileLines)}
  /\ diff_out \in {Absent, File(<<StaleLine>>)}
  /\ vret = NoVret
  /\ LedgerInert /\ MigInert /\ RetryInert /\ LopInert

CompareNext == compare_registries \/ verify_main_end
CompareSpec == CompareInit /\ [][CompareNext]_vars

----------------------------------------------------------------------------
(* __main__ of azure-to-gcp-migration.py, full scan *)

NotWorker == <<wk, li, loopvar, futures>>

Exit(code) == mpc' = "exit" /\ exit_code' = <<code>>

(* lines 129-137, 156-158 *)
get_azure_subscription_id ==
  /\ mpc = "startup"
  /\ \E found \in BOOLEAN :
       IF found THEN mpc' = "args" /\ UNCHANGED exit_code ELSE Exit(1)
  /\ UNCHANGED <<mode, diff_file, acr_names, ci, matt, report, ghost, NotWorker,
                 ledgerVars, retryVars, lopVars, verVars>>

(* lines 384-398 *)
parse_args ==
  /\ mpc = "args"
  /\ IF mode = "replay"
     THEN IF diff_file.exists
          THEN mpc' = "replay_open" /\ UNCHANGED exit_code
          ELSE Exit(1)
     ELSE mpc' = "init_db" /\ UNCHANGED exit_code
  /\ UNCHANGED <<mode, diff_file, acr_names, ci, matt, report, ghost, NotWorker,
                 ledgerVars, retryVars, lopVars, verVars>>

(* lines 41-60, 398 *)
init_db ==
  /\ mpc = "init_db"
  /\ table' = TRUE
  /\ mpc' = "list"
  /\ UNCHANGED <<ledger, ledger0, mode, exit_code, diff_file, acr_names, ci, matt,
                 report, ghost, NotWorker, retryVars, lopVars, verVars>>

(* lines 165-167, 399: one invocation; the subscription holds the first n *)
(* registries                                                              *)
list_acr_registries ==
  /\ mpc = "list"
  /\ \E out \in {Return(Some(SubSeq(AcrOrder, 1, n))) : n \in 0..NumRegistries}
                  \cup {Raise} :
       LET s == RetryStep(matt, RETRY_LIMIT, out)
       IN IF s.done
          THEN acr_names' = s.result /\ matt' = 0 /\ mpc' = "chunkify"
          ELSE matt' = s.i /\ UNCHANGED <<acr_names, mpc>>
  /\ UNCHANGED <<mode, exit_code, diff_file, ci, report, ghost, NotWorker,
                 ledgerVars, retryVars, lopVars, verVars>>

(* line 400: len(None) raises TypeError, which nothing catches *)
main_chunkify ==
  /\ mpc = "chunkify"
  /\ IF acr_names.none
     THEN Exit(1) /\ ghost' = [ghost EXCEPT !.aborted = "TypeError"] /\ UNCHANGED ci
     ELSE mpc' = "dispatch" /\ ci' = 1 /\ UNCHANGED <<exit_code, ghost>>
  /\ UNCHANGED <<mode, diff_file, acr_names, matt, report, NotWorker,
                 ledgerVars, retryVars, lopVars, verVars>>

Chunks == chunkify(acr_names.val, MAX_CONCURRENT_JOBS)

(* lines 403-405: every registry of the chunk gets a thread of the pool *)
main_dispatch ==
  /\ mpc = "dispatch"
  /\ IF ci <= Len(Chunks)
     THEN /\ wk' = [w \in 1..MAX_CONCURRENT_JOBS |->
                      IF w <= Len(Chunks[ci]) THEN StartAcr(Chunks[ci][w]) ELSE IdleWorker]
          /\ ghost' = [ghost EXCEPT !.started = @ \cup Range(Chunks[ci])]
          /\ mpc' = "wait"
     ELSE /\ mpc' = "report"
          /\ UNCHANGED <<wk, ghost>>
  /\ UNCHANGED <<mode, exit_code, diff_file, acr_names, ci, matt, report, li, loopvar,
                 futures, ledgerVars, retryVars, lopVars, verVars>>

BatchAnyComplete == \E w \in DOMAIN wk : ~Running(wk[w])
BatchAllReturned == \A w \in DOMAIN wk : wk[w].pc = "done"
BatchComplete == \A w \in DOMAIN wk : ~Running(wk[w])

(* lines 406-410 and the end of the with block: every future of the chunk *)
(* has completed; an exception of process_acr is logged                   *)
main_wait ==
  /\ mpc = "wait"
  /\ BatchComplete
  /\ ci' = ci + 1
  /\ mpc' = "dispatch"
  /\ UNCHANGED <<mode, exit_code, diff_file, acr_names, matt, report, ghost, NotWorker,
                 ledgerVars, retryVars, lopVars, verVars>>

(* lines 413-419 *)
main_report ==
  /\ mpc = "report"
  /\ report' = [printed |-> TRUE, rows |-> get_all_processed(ledger)]
  /\ Exit(0)
  /\ UNCHANGED <<mode, diff_file, acr_names, ci, matt, ghost, NotWorker,
                 ledgerVars, retryVars, lopVars, verVars>>

----------------------------------------------------------------------------
(* copy_images_to_gcr: targeted replay of a difference file *)

(* the identity a line of the difference file names, in the format         *)
(* registry:repository:tag:-digest that the verify script writes           *)
LineIdentity(parts) ==
  IF Len(parts) >= 5 /\ parts[4] # <<>> /\ parts[4][1] = "-"
  THEN Row(parts[1], parts[2], parts[3], Tail(parts[4]) \o COLON \o parts[5])
  ELSE <<>>

(* lines 367-372: the row the function builds *)
ReplayRow(Image, parts) ==
  Row(Image[1], Image[2], Image[3], parts[4] \o COLON \o parts[5])

ReplayKey(parts) == IF Len(parts) >= 5 THEN ReplayRow(parts, parts) ELSE <<>>

AnyCopied == \E f \in 1..Len(futures) : futures[f].st = "done"
AllCopied == \A f \in 1..Len(futures) : futures[f].st = "done"

(* lines 338-342 *)
replay_open ==
  /\ mpc = "replay_open"
  /\ IF diff_file.lines = <<>>
     THEN Exit(0) /\ UNCHANGED li
     ELSE mpc' = "loop" /\ li' = 1 /\ UNCHANGED exit_code
  /\ UNCHANGED <<mode, diff_file, acr_names, ci, matt, report, ghost, wk, loopvar,
                 futures, ledgerVars, retryVars, lopVars, verVars>>

(* lines 311-334: the repository is there, or the listing fails (caught),  *)
(* or it has to be created: line 326 then reads the undefined name         *)
(* `location` and NameError leaves the function                            *)
EnsureOutcomes == {"exists", "list_failed", "missing"}

(* lines 345-356: one iteration of the loop over the lines *)
replay_line ==
  /\ mpc = "loop" /\ li <= Len(diff_file.lines)
  /\ \E original_image \in {Strip(diff_file.lines[li])} :
     \E parts \in {Split(original_image, ":")} :
     LET lv == [original_image |-> original_image, parts |-> parts]
     IN /\ loopvar' = lv
        /\ IF Len(parts) >= 3
           THEN \E e \in EnsureOutcomes :
                  IF e = "missing"
                  THEN /\ mpc' = "abort"
                       /\ ghost' = [ghost EXCEPT !.aborted = "NameError"]
                       /\ UNCHANGED <<li, futures>>
                  ELSE /\ futures' = Append(futures,
                            [line |-> li,
                             src |-> SourceImage(parts[1], parts[2], parts[3]),
                             dst |-> DestImage(parts[1], parts[2], parts[3]),
                             id |-> ReplayKey(parts), named |-> LineIdentity(parts),
                             st |-> "queued", att |-> 0])
                       /\ ghost' = [ghost EXCEPT !.submits = @ \cup
                            {[w |-> 0, ci |-> 0, line |-> li, id |-> ReplayKey(parts),
                              named |-> LineIdentity(parts),
                              src |-> SourceImage(parts[1], parts[2], parts[3]),
                              ledgered |-> Count(ledger, LineIdentity(parts)) >= 1]}]
                       /\ li' = li + 1
                       /\ UNCHANGED mpc
           ELSE /\ li' = li + 1
                /\ UNCHANGED <<mpc, futures, ghost>>
  /\ UNCHANGED <<mode, exit_code, diff_file, acr_names, ci, matt, report, wk,
                 ledgerVars, retryVars, lopVars, verVars>>

(* line 343: ThreadPoolExecutor() without max_workers sizes the pool as   *)
(* min(32, os.cpu_count() + 4), here on a machine with one CPU            *)
DefaultMaxWorkers == 5

InFlight == {f \in 1..Len(futures) : futures[f].st = "running"}

(* a free thread of that pool takes a submitted copy *)
replay_start(f) ==
  /\ futures[f].st = "queued"
  /\ Cardinality(InFlight) < DefaultMaxWorkers
  /\ futures' = [futures EXCEPT ![f].st = "running"]
  /\ UNCHANGED <<mode, mpc, exit_code, diff_file, acr_names, ci, matt, report, ghost, wk,
                 li, loopvar, ledgerVars, retryVars, lopVars, verVars>>

(* lines 234-241 run by a thread of the executor of line 343 *)
replay_copy(f) ==
  /\ futures[f].st = "running"
  /\ \E rc \in GcraneOutcomes :
       LET s == RetryStep(futures[f].att, RETRY_LIMIT, GcraneCall(rc))
       IN /\ futures' = [futures EXCEPT ![f] =
                           IF s.done THEN [@ EXCEPT !.st = "done", !.att = 0]
                           ELSE [@ EXCEPT !.att = s.i]]
          /\ ghost' = [ghost EXCEPT !.gcrane = @ \cup
                         {[w |-> 0, ci |-> 0, line |-> futures[f].line,
                           id |-> futures[f].id, named |-> futures[f].named,
                           k |-> futures[f].att + 1, rc |-> rc]}]
  /\ UNCHANGED <<mode, mpc, exit_code, diff_file, acr_names, ci, matt, report, wk, li,
                 loopvar, ledgerVars, retryVars, lopVars, verVars>>

(* lines 360-364 and the end of the with block *)
replay_join ==
  /\ mpc = "loop" /\ li > Len(diff_file.lines)
  /\ AllCopied
  /\ mpc' = "record"
  /\ UNCHANGED <<mode, exit_code, diff_file, acr_names, ci, matt, report, ghost,
                 NotWorker, ledgerVars, retryVars, lopVars, verVars>>

(* an exception raised inside the with block: the executor is shut down,  *)
(* waiting for the submitted copies, and line 377 prints the error        *)
replay_abort ==
  /\ mpc = "abort"
  /\ AllCopied
  /\ Exit(0)
  /\ UNCHANGED <<mode, diff_file, acr_names, ci, matt, report, ghost, NotWorker,
                 ledgerVars, retryVars, lopVars, verVars>>

(* lines 367-373, with original_image and parts as the loop left them;    *)
(* parts[3] or parts[4] out of range raises IndexError and the INSERT     *)
(* without the table raises OperationalError, both caught at line 377     *)
replay_record ==
  /\ mpc = "record"
  /\ \E Image \in {Split(loopvar.original_image, ":")} :
     LET parts == loopvar.parts
     IN IF Len(Image) >= 3
        THEN IF Len(parts) < 5 \/ ~table
             THEN /\ ghost' = [ghost EXCEPT !.aborted =
                                IF Len(parts) < 5 THEN "IndexError" ELSE "OperationalError"]
                  /\ Exit(0)
                  /\ UNCHANGED ledger
             ELSE /\ ledger' = insert_processed(ledger, ReplayRow(Image, parts))
                  /\ ghost' = [ghost EXCEPT !.inserts = @ \cup
                       {[w |-> 0, ci |-> 0, line |-> Len(diff_file.lines),
                         id |-> ReplayRow(Image, parts)]}]
                  /\ mpc' = "replay_report"
                  /\ UNCHANGED exit_code
        ELSE /\ mpc' = "replay_report"
             /\ UNCHANGED <<ledger, ghost, exit_code>>
  /\ UNCHANGED <<table, ledger0, mode, diff_file, acr_names, ci, matt, report, NotWorker,
                 retryVars, lopVars, verVars>>

(* lines 374-376 *)
replay_report ==
  /\ mpc = "replay_report"
  /\ IF table
     THEN /\ report' = [printed |-> TRUE, rows |-> get_all_processed(ledger)]
          /\ UNCHANGED ghost
     ELSE /\ ghost' = [ghost EXCEPT !.aborted = "OperationalError"]
          /\ UNCHANGED report
  /\ Exit(0)
  /\ UNCHANGED <<mode, diff_file, acr_names, ci, matt, NotWorker,
                 ledgerVars, retryVars, lopVars, verVars>>

----------------------------------------------------------------------------
(* Spec: one run of azure-to-gcp-migration.py, in either mode *)

SeedId == Row(S("r1"), S("a"), S("v1"), Sha("d1"))

ReplayLines ==
  { AcrLine(AcrUniverse[1]) \o NL,
    AcrLine(AcrUniverse[2]) \o NL,
    <<"onlytwo", ":", "fields", "\n">>,
    <<"r1", ":", "a", ":", "v1", "\n">> }

Init ==
  /\ mode \in {"scan", "replay"}
  /\ mpc = "startup" /\ exit_code = <<>>
  /\ table \in BOOLEAN
  /\ ledger \in (IF table THEN {<<>>, <<SeedId>>} ELSE {<<>>})
  /\ ledger0 = ledger
  /\ diff_file \in (IF mode = "replay"
                    THEN {Absent} \cup {File(q) : q \in SeqsUpTo(ReplayLines, MaxFileLines)}
                    ELSE {Absent})
  /\ acr_names = PyNone /\ ci = 0 /\ matt = 0
  /\ wk = [w \in 1..MAX_CONCURRENT_JOBS |-> IdleWorker]
  /\ li = 0 /\ loopvar = <<>> /\ futures = <<>>
  /\ report = NotPrinted /\ ghost = NoGhost
  /\ RetryInert /\ LopInert /\ VerInert

Next ==
  \/ get_azure_subscription_id
  \/ parse_args
  \/ init_db
  \/ list_acr_registries
  \/ main_chunkify
  \/ main_dispatch
  \/ \E w \in 1..MAX_CONCURRENT_JOBS : Worker(w)
  \/ main_wait
  \/ main_report
  \/ replay_open
  \/ replay_line
  \/ \E f \in 1..Len(futures) : replay_start(f)
  \/ \E f \in 1..Len(futures) : replay_copy(f)
  \/ replay_join
  \/ replay_abort
  \/ replay_record
  \/ replay_report

Spec == Init /\ [][Next]_vars

----------------------------------------------------------------------------
(* WorkersSpec: two process_acr calls over the same registry in one batch, *)
(* both inside process_repository(r1, a) at its loop over the tags, so     *)
(* that both run check -> copy -> insert over the same identities          *)

WorkerAtTags(acr, repo) ==
  GotoTag([StartAcr(acr) EXCEPT !.repos = <<repo>>, !.ri = 1,
                                !.tags = Some(Tags(acr, repo))], 1)

WorkersInit ==
  /\ mode = "scan"
  /\ mpc = "wait" /\ exit_code = <<>>
  /\ table = TRUE
  /\ ledger \in {<<>>, <<SeedId>>}
  /\ ledger0 = ledger
  /\ diff_file = Absent
  /\ acr_names = Some(<<S("r1"), S("r1")>>) /\ ci = 1 /\ matt = 0
  /\ wk = [w \in 1..MAX_CONCURRENT_JOBS |-> WorkerAtTags(S("r1"), S("a"))]
  /\ li = 0 /\ loopvar = <<>> /\ futures = <<>>
  /\ report = NotPrinted
  /\ ghost = [NoGhost EXCEPT !.started = {S("r1")}]
  /\ RetryInert /\ LopInert /\ VerInert

WorkersNext ==
  \/ \E w \in 1..MAX_CONCURRENT_JOBS :
       \/ get_tag_digest(w)
       \/ process_repository_check(w)
       \/ process_repository_submit(w)
       \/ copy_image(w)
       \/ process_repository_insert(w)
  \/ main_wait
  \/ main_dispatch
  \/ main_report

WorkersSpec == WorkersInit /\ [][WorkersNext]_vars

----------------------------------------------------------------------------
(* FaultSpec: a run in which the SQLite calls of process_repository may    *)
(* raise (sqlite3.OperationalError: database is locked, disk I/O error).   *)
(* Neither check_if_processed nor insert_processed catches it, so it       *)
(* reaches the except clause of line 288.                                  *)

(* lines 79-97 raising inside line 273 *)
check_if_processed_raises(w) ==
  /\ wk[w].pc = "check"
  /\ WorkerStep(w, GotoRepo(wk[w], wk[w].ri + 1), Fault(ghost, wk[w], "check"))
  /\ UNCHANGED ledgerVars

(* lines 63-76 raising inside line 287 *)
insert_processed_raises(w) ==
  /\ wk[w].pc = "insert"
  /\ WorkerStep(w, GotoRepo(wk[w], wk[w].ri + 1), Fault(ghost, wk[w], "insert"))
  /\ UNCHANGED ledgerVars

FaultNext ==
  \/ Next
  \/ \E w \in 1..MAX_CONCURRENT_JOBS : check_if_processed_raises(w)
  \/ \E w \in 1..MAX_CONCURRENT_JOBS : insert_processed_raises(w)

FaultSpec == Init /\ [][FaultNext]_vars

----------------------------------------------------------------------------
(* PoolSpec: copy_images_to_gcr on a difference file with one line more    *)
(* than MAX_CONCURRENT_JOBS                                                *)

PoolInit ==
  /\ mode = "replay"
  /\ mpc = "replay_open" /\ exit_code = <<>>
  /\ table = TRUE /\ ledger = <<>> /\ ledger0 = <<>>
  /\ diff_file \in {File(q) : q \in [1..(MAX_CONCURRENT_JOBS + 1) -> ReplayLines]}
  /\ acr_names = PyNone /\ ci = 0 /\ matt = 0
  /\ wk = [w \in 1..MAX_CONCURRENT_JOBS |-> IdleWorker]
  /\ li = 0 /\ loopvar = <<>> /\ futures = <<>>
  /\ report = NotPrinted /\ ghost = NoGhost
  /\ RetryInert /\ LopInert /\ VerInert

PoolNext ==
  \/ replay_open
  \/ replay_line
  \/ \E f \in 1..Len(futures) : replay_start(f)
  \/ \E f \in 1..Len(futures) : replay_copy(f)
  \/ replay_join
  \/ replay_abort
  \/ replay_record
  \/ replay_report

PoolSpec == PoolInit /\ [][PoolNext]_vars

----------------------------------------------------------------------------
(* LiveSpec: a run in which a thread that can take a step eventually takes *)
(* one (every provider call returns, the interpreter schedules every       *)
(* runnable thread)                                                        *)

LiveSpec == Spec /\ WF_vars(Next)

----------------------------------------------------------------------------
(* Claims *)

(* C4: ledger idempotence. After insert(x) the table holds exactly one row *)
(* with key x and every other row as before; an insert of a key already    *)
(* present (in particular a repeated insert(x)) leaves the table as it     *)
(* was; and every key inserted since the last clear is found by the        *)
(* exists-check, whatever was inserted after it.                           *)
C4_LedgerIdempotent ==
  /\ lop.kind = "insert" =>
       LET Other(r) == r # lop.id
       IN /\ Count(ledger, lop.id) = 1
          /\ SelectSeq(ledger, Other) = SelectSeq(lop.before, Other)
          /\ check_if_processed(lop.before, lop.id) => ledger = lop.before
          /\ lop.again => ledger = lop.before
  /\ \A x \in lins : check_if_processed(ledger, x)

C4_Witness ==
  /\ lop.kind = "insert" /\ lop.again
  /\ Len(ledger) >= 2
  /\ Cardinality(lins) >= 2

(* C6: with retries = n >= 1, a function that raises on every call has     *)
(* been invoked exactly n times when the wrapper returns, and the wrapper  *)
(* returns None; a function that first returns on call k <= n has been     *)
(* invoked exactly k times and the wrapper returns that call's value.      *)
C6_RetryCounts ==
  (r_n >= 1 /\ r_res[1] = "returned") =>
     IF \A k \in 1..r_n : r_outs[k].raise
     THEN r_calls = r_n /\ r_res[2] = PyNone
     ELSE LET first == CHOOSE k \in 1..r_n :
                          ~r_outs[k].raise /\ \A j \in 1..(k - 1) : r_outs[j].raise
          IN r_calls = first /\ r_res[2] = r_outs[first].ret

C6_Witness ==
  /\ r_n = 3 /\ r_res[1] = "returned"
  /\ \A k \in 1..r_n : r_outs[k].raise
  /\ r_calls = 3

(* The four-field identities a scan observed *)
AcrIdentities(seen) == seen
GarIdentities(seen) ==
  UNION { {[registry |-> g.repository_id, repo |-> Last(Split(g.package, "/")),
            tag |-> g.tags[i], digest |-> g.version] : i \in 1..Len(g.tags)}
          : g \in seen }

(* C8: after the verify run, the lines of the difference file are exactly  *)
(* the images whose (registry, repository, tag, digest) the ACR scan       *)
(* observed and the GAR scan did not; an image observed by both scans with *)
(* the same four fields is not in the file.                                *)
C8_DiffByIdentity ==
  vpc = "done" =>
    LET src == AcrIdentities(vret.seen_acr)
        dst == GarIdentities(vret.seen_gar)
    IN read_images_from_file(diff_out) = {AcrLine(img) : img \in src \ dst}

(* C9: after compare_registries on inventory files with line sets A and B: *)
(* if A - B is non-empty the difference file holds each element of A - B   *)
(* on one line, once, and True is returned; if A - B is empty no           *)
(* difference file exists, whether or not one existed before the call, and *)
(* False is returned.                                                      *)
C9_CompareIsSubtraction ==
  vpc \in {"compared", "done"} =>
    LET A == read_images_from_file(acr_file)
        B == read_images_from_file(gcr_file)
    IN IF A \ B # {}
       THEN /\ diff_out.exists
            /\ Len(diff_out.lines) = Cardinality(A \ B)
            /\ {diff_out.lines[i] : i \in 1..Len(diff_out.lines)} = {x \o NL : x \in A \ B}
            /\ vret.created = <<TRUE>>
            /\ (B = {} => read_images_from_file(diff_out) = A)
       ELSE /\ ~diff_out.exists
            /\ vret.created = <<FALSE>>

C9_Witness ==
  /\ vpc = "compared" /\ vret.had_diff
  /\ read_images_from_file(acr_file) # {}
  /\ read_images_from_file(acr_file) = read_images_from_file(gcr_file)
  /\ ~diff_out.exists

(* C1: every row of the ledger was there when the run started or is the   *)
(* identity of a copy_image call for which gcrane returned success, and   *)
(* every insert the run made is for an identity with such a call.         *)
C1_RecordOnlyAfterSuccess ==
  /\ \A i \in 1..Len(ledger) :
       \/ ledger[i] \in Range(ledger0)
       \/ \E g \in ghost.gcrane : g.id = ledger[i] /\ g.rc = "ok"
  /\ \A x \in ghost.inserts :
       \E g \in ghost.gcrane : g.id = x.id /\ g.rc = "ok"

Dispatches(id) == {s \in ghost.submits : s.id = id}
Invocations(id) == {g \in ghost.gcrane : g.id = id}
Inserts(id) == {x \in ghost.inserts : x.id = id}

(* C2: in a full scan, for every identity whose digest resolved and that  *)
(* was checked: the check returns whether the ledger holds it; if it does, *)
(* there is no copy_image dispatch and no insert for it and the ledger    *)
(* keeps its one row; if it does not, there is at most one dispatch, an   *)
(* insert only after the dispatch, and when the run has ended exactly one *)
(* dispatch, one gcrane run and one row.  Nothing is dispatched without a *)
(* check that found the identity missing.                                 *)
C2_CopyIffNotLedgered ==
  mode = "scan" =>
    /\ \A c \in ghost.checks :
         /\ c.ret = c.present
         /\ IF c.present
            THEN /\ Dispatches(c.id) = {} /\ Invocations(c.id) = {} /\ Inserts(c.id) = {}
                 /\ Count(ledger, c.id) = 1
            ELSE /\ Cardinality(Dispatches(c.id)) <= 1
                 /\ Cardinality(Inserts(c.id)) <= Cardinality(Invocations(c.id))
                 /\ Cardinality(Invocations(c.id)) <= Cardinality(Dispatches(c.id))
                 /\ mpc = "exit" =>
                      /\ Cardinality(Dispatches(c.id)) = 1
                      /\ Cardinality(Invocations(c.id)) = 1
                      /\ Cardinality(Inserts(c.id)) = 1
                      /\ Count(ledger, c.id) = 1
    /\ \A s \in ghost.submits : \E c \in ghost.checks : c.id = s.id /\ ~c.present

C2_Witness ==
  /\ mode = "scan" /\ mpc = "exit"
  /\ ledger0 = <<SeedId>>
  /\ \E c \in ghost.checks : c.id = SeedId /\ c.present
  /\ {s.id : s \in {t \in ghost.submits : t.id[1] = S("r1") /\ t.id[2] = S("a")}}
        = {Row(S("r1"), S("a"), S("v2"), Sha("d2"))}
  /\ SeedId \in Range(ledger)
  /\ Row(S("r1"), S("a"), S("v2"), Sha("d2")) \in Range(ledger)

(* C3: every copy_image dispatch, in either mode, comes after an          *)
(* exists-check of the identity it copies, and that identity is not in    *)
(* the ledger when the copy is dispatched.                                *)
C3_CheckBeforeEveryCopy ==
  \A s \in ghost.submits :
    /\ ~s.ledgered
    /\ \E c \in ghost.checks : c.id = s.named /\ c.w = s.w /\ c.ci = s.ci

(* C5: with two workers over the same identities the ledger never holds a *)
(* key twice, and once every worker has completed each identity whose     *)
(* copy succeeded has exactly one row.                                    *)
C5_OneRowPerCopied ==
  /\ NoDup(ledger)
  /\ mpc = "exit" =>
       \A g \in ghost.gcrane : g.rc = "ok" => Count(get_all_processed(ledger), g.id) = 1

C5_Witness ==
  /\ mpc = "exit"
  /\ \E c1, c2 \in ghost.checks :
       /\ c1.id = c2.id /\ c1.w # c2.w /\ ~c1.ret /\ ~c2.ret
       /\ \E g1, g2 \in ghost.gcrane :
            g1.id = c1.id /\ g2.id = c1.id /\ g1.w # g2.w /\ g1.rc = "ok" /\ g2.rc = "ok"
       /\ Count(ledger, c1.id) = 1

ChunkShape(lst, n) ==
  LET ch == chunkify(lst, n)
  IN /\ Len(ch) = (Len(lst) + n - 1) \div n
     /\ Flatten(ch) = lst
     /\ \A k \in 1..Len(ch) :
          /\ Len(ch[k]) \in 1..n
          /\ k < Len(ch) => Len(ch[k]) = n

(* C7: the list of registries is cut, in order, into ceil(L/N) batches of *)
(* N registries, the last one possibly smaller (12 and 5 give 5, 5, 2),   *)
(* every registry in exactly one batch; a process_acr of a batch has      *)
(* started only if every process_acr of the batch before has completed,   *)
(* and the calls that run belong to the current batch.                    *)
C7_ChunkedBarrier ==
  /\ mpc = "startup" =>
       /\ [k \in 1..3 |-> Len(chunkify([i \in 1..12 |-> i], 5)[k])] = <<5, 5, 2>>
       /\ \A L \in 0..12 : \A n \in 1..5 : ChunkShape([i \in 1..L |-> i], n)
  /\ (mode = "scan" /\ ~acr_names.none /\ mpc # "exit") =>
       /\ ChunkShape(acr_names.val, MAX_CONCURRENT_JOBS)
       /\ \A k \in 1..(Len(Chunks) - 1) :
            Range(Chunks[k + 1]) \cap ghost.started # {}
               => Range(Chunks[k]) \subseteq ghost.finished
       /\ \A w \in DOMAIN wk :
            Running(wk[w]) => ci <= Len(Chunks) /\ wk[w].acr \in Range(Chunks[ci])

C7_Witness ==
  /\ mode = "scan" /\ mpc = "wait" /\ ci = 2
  /\ Len(Chunks) = 2 /\ Len(Chunks[1]) = MAX_CONCURRENT_JOBS
  /\ Len(Chunks[2]) < MAX_CONCURRENT_JOBS
  /\ Running(wk[1])
  /\ Range(Chunks[1]) \subseteq ghost.finished

LineParts(i) == Split(Strip(diff_file.lines[i]), ":")

(* C10: in a replay, a line with fewer fields than                        *)
(* registry:repository:tag:-digest has is never handed to copy_image and  *)
(* yields no ledger row; no line makes an index run out of range and cut  *)
(* the run short; and when the run has ended every well-formed line has   *)
(* been copied, its identity is in the ledger and in the report.          *)
C10_MalformedLineSkipped ==
  (mode = "replay" /\ diff_file.exists /\ table) =>
    /\ \A s \in ghost.submits : LineIdentity(LineParts(s.line)) # <<>>
    /\ \A x \in ghost.inserts : LineIdentity(LineParts(x.line)) # <<>>
    /\ ghost.aborted # "IndexError"
    /\ (mpc = "exit" /\ exit_code = <<0>>) =>
         \A i \in 1..Len(diff_file.lines) :
           LineIdentity(LineParts(i)) # <<>> =>
             /\ \E g \in ghost.gcrane : g.line = i
             /\ \/ LineIdentity(LineParts(i)) \in Range(ledger)
                \/ ReplayKey(LineParts(i)) \in Range(ledger)
             /\ \/ LineIdentity(LineParts(i)) \in Range(report.rows)
                \/ ReplayKey(LineParts(i)) \in Range(report.rows)

(* C11: in a replay that ran to its end without an exception, every       *)
(* well-formed line whose copy succeeded has a row of its own in the      *)
(* ledger (with the digest as the line gives it, with or without the      *)
(* hyphen), not only the last line of the file.                           *)
C11_EveryReplayedLineRecorded ==
  (mode = "replay" /\ table /\ mpc = "exit" /\ exit_code = <<0>> /\ ghost.aborted = "no") =>
    \A i \in 1..Len(diff_file.lines) :
      (/\ LineIdentity(LineParts(i)) # <<>>
       /\ \E g \in ghost.gcrane : g.line = i /\ g.rc = "ok")
      => \/ LineIdentity(LineParts(i)) \in Range(ledger)
         \/ ReplayKey(LineParts(i)) \in Range(ledger)

LaterTagsAttempted(acr, ri, ti) ==
  LET repo == Repos(acr)[ri]
      tags == Tags(acr, repo)
  IN \A k \in (ti + 1)..Len(tags) : <<acr, repo, tags[k]>> \in ghost.attempted
LaterReposEntered(acr, ri) ==
  \A k \in (ri + 1)..Len(Repos(acr)) : <<acr, Repos(acr)[k]>> \in ghost.entered
TagIndex(id) ==
  CHOOSE k \in 1..Len(Tags(id[1], id[2])) : Tags(id[1], id[2])[k] = id[3]
RepoIndex(id) == CHOOSE k \in 1..Len(Repos(id[1])) : Repos(id[1])[k] = id[2]

(* the part of C12 that the code keeps: failures of the digest lookup, of  *)
(* the copy, of the listings and of the resource-group lookup              *)
IsolationOfRemoteFailures ==
  (mode = "scan" /\ mpc = "exit" /\ exit_code = <<0>>) =>
    /\ Range(acr_names.val) \subseteq ghost.started
    /\ ghost.started \subseteq ghost.finished
    /\ \A f \in ghost.faults :
         /\ f.op = "digest" => LaterTagsAttempted(f.acr, f.ri, f.ti)
         /\ f.op \in {"digest", "list_tags"} => LaterReposEntered(f.acr, f.ri)
    /\ \A g \in ghost.gcrane :
         g.rc = "err" => /\ LaterTagsAttempted(g.id[1], RepoIndex(g.id), TagIndex(g.id))
                         /\ LaterReposEntered(g.id[1], RepoIndex(g.id))

(* C12: when a full scan has ended, every registry of every batch has been *)
(* started and has completed, and after each failed step (a tag's digest   *)
(* lookup, ledger check, copy or ledger insert, a repository's tag         *)
(* listing) the later tags of the same repository have had their digest   *)
(* looked up and the later repositories of the registry have been entered. *)
C12_FailureIsolation ==
  /\ IsolationOfRemoteFailures
  /\ (mode = "scan" /\ mpc = "exit" /\ exit_code = <<0>>) =>
       \A f \in ghost.faults :
         f.op \in {"check", "insert"} =>
           /\ LaterTagsAttempted(f.acr, f.ri, f.ti)
           /\ LaterReposEntered(f.acr, f.ri)

(* C13: a run ends with a non-zero exit status only when the startup      *)
(* subscription lookup failed or the --diff-file path is not a file, and   *)
(* then nothing was copied and the ledger is as it was; no exception       *)
(* leaves the main thread uncaught, whatever the remote calls did          *)
(* (list_acr_registries exhausting its retries included); and a full scan  *)
(* that got past startup ends with the report printed and exit status 0.   *)
C13_RemoteFailuresNeverAbort ==
  mpc = "exit" =>
    /\ ghost.aborted # "TypeError"
    /\ exit_code # <<0>> =>
         /\ ghost.submits = {} /\ ghost.gcrane = {} /\ ledger = ledger0
         /\ mode = "scan" => ghost.started = {} /\ matt = 0 /\ acr_names.none
    /\ (mode = "scan" /\ exit_code = <<0>>) => report.printed

RunningAcrs == {w \in DOMAIN wk : Running(wk[w])}
CopiesInFlight ==
  Cardinality({w \in DOMAIN wk : wk[w].pc = "copy"}) + Cardinality(InFlight)

(* C14: in every state of a run, in either mode, no more than             *)
(* MAX_CONCURRENT_JOBS process_acr calls are running and no more than      *)
(* MAX_CONCURRENT_JOBS copy_image calls are in flight.                     *)
C14_BoundedConcurrency ==
  /\ Cardinality(RunningAcrs) <= MAX_CONCURRENT_JOBS
  /\ CopiesInFlight <= MAX_CONCURRENT_JOBS

(* the same bound in a full scan *)
BoundedConcurrencyOfScan ==
  mode = "scan" => C14_BoundedConcurrency

(* C15: when a run has ended, every gcrane run that returned an error on  *)
(* an attempt before the last one allowed by RETRY_LIMIT was followed by   *)
(* another gcrane run of the same copy.                                    *)
C15_FailedCopyRetried ==
  (mpc = "exit" /\ RETRY_LIMIT > 1) =>
    \A g \in ghost.gcrane :
      (g.rc = "err" /\ g.k < RETRY_LIMIT) =>
        \E h \in ghost.gcrane :
          h.w = g.w /\ h.ci = g.ci /\ h.line = g.line /\ h.id = g.id /\ h.k = g.k + 1

(* C16: once the report has been printed, in either mode, the run is at   *)
(* its end: every process_acr call of every batch has completed, every     *)
(* submitted copy has completed, the report holds the ledger as it is now  *)
(* (so nothing was inserted after it) and with it every row the run        *)
(* inserted.                                                               *)
C16_ReportAfterAllWork ==
  report.printed =>
    /\ mpc = "exit"
    /\ RunningAcrs = {} /\ ghost.started \subseteq ghost.finished
    /\ mode = "scan" => ci > Len(Chunks) /\ Range(acr_names.val) \subseteq ghost.finished
    /\ AllCopied /\ CopiesInFlight = 0
    /\ \A s \in ghost.submits : \E g \in ghost.gcrane : g.id = s.id /\ g.line = s.line
    /\ report.rows = get_all_processed(ledger)
    /\ \A x \in ghost.inserts : x.id \in Range(report.rows)

C16_Witness ==
  /\ report.printed /\ mode = "replay"
  /\ Len(futures) = 2 /\ ghost.inserts # {}
  /\ Len(report.rows) = 2

(* C17: under fair scheduling every run, in either mode, eventually       *)
(* reaches its end, whatever the remote calls return or raise.             *)
C17_Terminates == <>(mpc = "exit")

(* a full scan has ended although every remote operation of a registry     *)
(* failed: listings raised on every attempt, gcrane returned errors        *)
C17_Witness ==
  /\ mpc = "exit" /\ mode = "scan"
  /\ \E f \in ghost.faults : f.op = "list_repos"
  /\ \E f \in ghost.faults : f.op = "list_tags"
  /\ \E f \in ghost.faults : f.op = "rg"
  /\ ghost.gcrane # {} /\ \A g \in ghost.gcrane : g.rc = "err"

FaultTag(f) == Tags(f.acr, Repos(f.acr)[f.ri])[f.ti]
SameTag(id, f) == id[1] = f.acr /\ id[2] = Repos(f.acr)[f.ri] /\ id[3] = FaultTag(f)
RowsOfTag(rows, f) == SelectSeq(rows, LAMBDA x : SameTag(x, f))

(* C18: in a full scan, a tag whose digest lookup returned None or the     *)
(* empty string gets no ledger check, no copy_image dispatch, no gcrane    *)
(* run and no insert; the rows the ledger holds for that tag are those it  *)
(* held when the run started; and once the registry has completed, the     *)
(* later tags of the same repository have had their digest looked up.      *)
C18_MissingDigestSkipsTag ==
  mode = "scan" =>
    \A f \in ghost.faults :
      f.op = "digest" =>
        /\ \A c \in ghost.checks : ~SameTag(c.id, f)
        /\ \A c \in ghost.submits : ~SameTag(c.id, f)
        /\ \A c \in ghost.gcrane : ~SameTag(c.id, f)
        /\ \A c \in ghost.inserts : ~SameTag(c.id, f)
        /\ RowsOfTag(ledger, f) = RowsOfTag(ledger0, f)
        /\ f.acr \in ghost.finished => LaterTagsAttempted(f.acr, f.ri, f.ti)

(* the digest of r1/a:v1 was missing, its ledger row of an earlier run is  *)
(* untouched, and r1/a:v2 was copied and recorded                          *)
C18_Witness ==
  /\ mode = "scan" /\ mpc = "exit"
  /\ [acr |-> S("r1"), ri |-> 1, ti |-> 1, op |-> "digest"] \in ghost.faults
  /\ ledger = <<SeedId, Row(S("r1"), S("a"), S("v2"), Sha("d2"))>>

Retargeted == Row(S("r1"), S("a"), S("v1"), Sha("d2"))

(* C19: in a full scan started with the ledger holding (r1, a, v1, d1),    *)
(* when the tag resolves to d2 the exists-check of (r1, a, v1, d2) returns *)
(* false; the old row stays where it was, unchanged; and when the run has  *)
(* ended the image has been dispatched to copy_image, gcrane has run, and  *)
(* the ledger holds both rows, each once.                                  *)
C19_RetargetedTagIsDistinct ==
  (mode = "scan" /\ ledger0 = <<SeedId>>) =>
    /\ Len(ledger) >= 1 /\ ledger[1] = SeedId /\ Count(ledger, SeedId) = 1
    /\ \A c \in ghost.checks :
         c.id = Retargeted =>
           /\ ~c.ret
           /\ mpc = "exit" =>
                /\ Dispatches(Retargeted) # {} /\ Invocations(Retargeted) # {}
                /\ Count(ledger, Retargeted) = 1 /\ Count(ledger, SeedId) = 1

C19_Witness ==
  /\ mode = "scan" /\ mpc = "exit" /\ ledger0 = <<SeedId>>
  /\ \E c \in ghost.checks : c.id = Retargeted /\ ~c.ret
  /\ Dispatches(Retargeted) # {}
  /\ SubSeq(ledger, 1, 2) = <<SeedId, Retargeted>>

(* the identity full-scan mode computes and checks for an image of ACR *)
ScanIdentity(img) == Row(img.registry, img.repo, img.tag, img.digest)

(* C20: when a replay has inserted the row of a line that the verify       *)
(* script wrote for an image (registry:repository:tag:-digest), that row   *)
(* is the identity full-scan mode computes for the image, so its           *)
(* exists-check on the ledger finds the image.                             *)
C20_ReplayKeyIsScanKey ==
  mode = "replay" =>
    \A x \in ghost.inserts :
      \A img \in Range(AcrUniverse) :
        Strip(diff_file.lines[x.line]) = AcrLine(img) =>
          /\ x.id = ScanIdentity(img)
          /\ check_if_processed(ledger, ScanIdentity(img))

(* C21: in a run of either mode the table processed_entries exists when   *)
(* a ledger operation executes: no insert, check or listing fails for the  *)
(* lack of it, and a replay that ran to its end has printed its report     *)
(* and holds the row it built for the last line.                           *)
C21_LedgerInitialisedBeforeUse ==
  /\ ghost.aborted # "OperationalError"
  /\ (ghost.inserts # {} \/ ghost.checks # {} \/ report.printed) => table
  /\ (mode = "replay" /\ mpc = "exit" /\ exit_code = <<0>> /\ ghost.aborted = "no"
        /\ diff_file.lines # <<>>) =>
       /\ report.printed
       /\ Len(loopvar.parts) >= 5 => ReplayKey(loopvar.parts) \in Range(report.rows)

====
